---- MODULE Spec2Model ----
(***************************************************************************)
(* Model of labs/08_frameworks/A_PyTorch_introduction__autograd_in_action  *)
(* (notebook): the hand-written optimizers GradientDescent and             *)
(* MomentumGradientDescent, the minimize driver, the Gaussian objective,   *)
(* the Euclidean norm with its autograd gradient, and the dtype-mismatch   *)
(* cell.                                                                   *)
(*                                                                         *)
(* Numbers: a tensor element is an exact rational [n, d] (d > 0, lowest    *)
(* terms).  float32 rounding is not modelled; "equal within floating-point *)
(* tolerance" therefore reads "equal" here.  A 1-D tensor is a sequence of *)
(* rationals.                                                              *)
(***************************************************************************)
EXTENDS Integers, Sequences, FiniteSets, TLC

VARIABLES
    init,            \* the starting point handed to both optimizers (cell l.910)
    grad0,           \* .grad the parameters carry when the optimizer is built
    objective,       \* the objective f handed to minimize
    max_iter,        \* minimize's max_iter
    lr,              \* the cell's lr
    momentum,        \* the momentum handed to MomentumGradientDescent
    optimizer,       \* the optimizer object: cls, params, lr, momentum, velocities
                     \* (and, per velocity, its requires_grad flag)
    pc,              \* position in the driver cell / in minimize
    i,               \* minimize's loop index
    iterate_record,  \* minimize's list of recorded rows
    iterate_rec_gd,  \* result of minimize(f, GradientDescent(...))
    iterate_rec_mom, \* result of minimize(f, MomentumGradientDescent(...))
    final_gd,        \* history: the parameter value the GradientDescent run ended with
    test_log,        \* history: the values sum(iterate.grad ** 2) tested so far
    step_log,        \* history: the parameter values seen just before each step()
    calls,           \* number of direct method calls made (SpecOptim)
    tensors,         \* the list of tensors handed to the optimizer's constructor
    cell,            \* position in the small notebook sections
    A,               \* tensor A of the dtype section
    x,               \* tensor x of the dtype / norm / cosine / Gaussian sections
    y,               \* tensor y of the cosine section
    out              \* what the section's last cell produced

vars == <<init, grad0, objective, max_iter, lr, momentum, optimizer, pc, i, iterate_record,
          iterate_rec_gd, iterate_rec_mom, final_gd, test_log, step_log, calls,
          tensors, cell, A, x, y, out>>

optVars == <<init, grad0, objective, max_iter, lr, momentum, optimizer, pc, i, iterate_record,
             iterate_rec_gd, iterate_rec_mom, final_gd, test_log, step_log, calls,
             tensors>>

nbVars == <<cell, A, x, y, out>>

---------------------------------------------------------------------------
(* Bounds of the model *)

MaxIter == 3
MaxCalls == 3
MaxN == 2
MaxCoord == 2

(* Program constants *)

ThresholdDen == 1000000

---------------------------------------------------------------------------
(* Exact rational arithmetic *)

Abs(n) == IF n < 0 THEN -n ELSE n

RECURSIVE GCD(_, _)
GCD(a, b) == IF b = 0 THEN a ELSE GCD(b, a % b)

Q(n, d) ==
    LET s == IF d < 0 THEN -1 ELSE 1
        g == GCD(Abs(n), Abs(d))
    IN  [n |-> (s * n) \div g, d |-> (s * d) \div g]

Z(n) == [n |-> n, d |-> 1]

LCM(a, b) == (a \div GCD(a, b)) * b

RAdd(a, b) ==
    LET l == LCM(a.d, b.d)
    IN  Q(a.n * (l \div a.d) + b.n * (l \div b.d), l)

RNeg(a) == [n |-> -a.n, d |-> a.d]

RSub(a, b) == RAdd(a, RNeg(b))

RMul(a, b) ==
    LET g1 == GCD(Abs(a.n), b.d)
        g2 == GCD(Abs(b.n), a.d)
    IN  Q((a.n \div g1) * (b.n \div g2), (a.d \div g2) * (b.d \div g1))

RDiv(a, b) ==
    IF b.n < 0 THEN RMul(a, [n |-> -b.d, d |-> -b.n])
               ELSE RMul(a, [n |-> b.d, d |-> b.n])

(* Tensors of one dimension *)

VAdd(u, v) == [k \in 1..Len(u) |-> RAdd(u[k], v[k])]
VSub(u, v) == [k \in 1..Len(u) |-> RSub(u[k], v[k])]
VScale(r, v) == [k \in 1..Len(v) |-> RMul(r, v[k])]
VZero(v) == [k \in 1..Len(v) |-> Z(0)]

RECURSIVE RSum(_)
RSum(v) == IF v = <<>> THEN Z(0) ELSE RAdd(v[1], RSum(Tail(v)))

SumSq(v) == RSum([k \in 1..Len(v) |-> RMul(v[k], v[k])])

(* Python's None where a tensor is expected (.grad of a fresh leaf): the   *)
(* empty sequence, which no tensor of the model equals.                    *)
None == <<>>

(* A name not bound yet *)
Unbound == [kind |-> "unbound", rows |-> <<>>]

NoOptimizer ==
    [cls |-> "unbound", params |-> <<>>, lr |-> None, momentum |-> None,
     velocities |-> <<>>, velocities_requires_grad |-> <<>>]

---------------------------------------------------------------------------
(* Tensors that can be differentiated upon: the value and the .grad field *)

Parameter(data, grad) == [data |-> data, grad |-> grad]

(* The objectives handed to minimize are the bowls                        *)
(* f(x) = a/2 * sum((x - c) ** 2), whose gradient at x is a * (x - c).     *)

Objective(a, c) == [a |-> a, c |-> c]

Gradient(f, xv) == VScale(f.a, VSub(xv, f.c))

(* value.backward(): autograd ADDS the gradient of the value to the .grad  *)
(* of the leaf, or sets it when the leaf has no .grad yet.                 *)

Backward(f, param) ==
    [param EXCEPT !.grad = IF param.grad = None
                           THEN Gradient(f, param.data)
                           ELSE VAdd(param.grad, Gradient(f, param.data))]

---------------------------------------------------------------------------
(* class GradientDescent *)

GradientDescent(params, rate) ==
    [cls |-> "GradientDescent", params |-> params, lr |-> rate,
     momentum |-> None, velocities |-> <<>>, velocities_requires_grad |-> <<>>]

(* The index of the first parameter without .grad, 0 when all have one.    *)
FirstNoGrad(params) ==
    IF \E k \in 1..Len(params) : params[k].grad = None
    THEN CHOOSE k \in 1..Len(params) :
             /\ params[k].grad = None
             /\ \A j \in 1..(k - 1) : params[j].grad # None
    ELSE 0

GDUpdate_Ascent(rate, param) ==
    [param EXCEPT !.data = VAdd(param.data, VScale(rate, param.grad))]

GDUpdate_IgnoresLr(rate, param) ==
    [param EXCEPT !.data = VSub(param.data, param.grad)]

(* param -= self.lr * param.grad, in place *)
GDUpdate(rate, param) ==
    [param EXCEPT !.data = VSub(param.data, VScale(rate, param.grad))]

(* step(): the loop updates the parameters in order; self.lr * None raises *)
(* TypeError at the first parameter without .grad, those before it being   *)
(* already updated.                                                        *)
GradientDescent_step(opt) ==
    LET stop == FirstNoGrad(opt.params)
    IN  [opt EXCEPT !.params =
            [k \in 1..Len(opt.params) |->
                IF stop = 0 \/ k < stop
                THEN GDUpdate(opt.lr, opt.params[k])
                ELSE opt.params[k]]]

ZeroGradParam_ZeroesParam(param) ==
    IF param.grad # None
    THEN [param EXCEPT !.data = VZero(param.data)]
    ELSE param

ZeroGradParam(param) ==
    IF param.grad # None
    THEN [param EXCEPT !.grad = VZero(param.grad)]
    ELSE param

zero_grad_Forgotten(opt) == opt

zero_grad(opt) ==
    [opt EXCEPT !.params = [k \in 1..Len(opt.params) |-> ZeroGradParam(opt.params[k])]]

(* class MomentumGradientDescent(GradientDescent) *)

(* A slip of __init__: the velocities start as clones of the parameters *)
MomentumGradientDescent_VelocitiesCloned(params, rate, mu) ==
    [cls |-> "MomentumGradientDescent", params |-> params, lr |-> rate,
     momentum |-> mu,
     velocities |-> [k \in 1..Len(params) |-> params[k].data],
     velocities_requires_grad |-> [k \in 1..Len(params) |-> TRUE]]

(* __init__: super().__init__(params, lr); self.momentum = momentum;       *)
(* self.velocities = [torch.zeros_like(param, requires_grad=False)         *)
(*                    for param in params]                                 *)
MomentumGradientDescent(params, rate, mu) ==
    [cls |-> "MomentumGradientDescent", params |-> params, lr |-> rate,
     momentum |-> mu,
     velocities |-> [k \in 1..Len(params) |-> VZero(params[k].data)],
     velocities_requires_grad |-> [k \in 1..Len(params) |-> FALSE]]

(* step(): the notebook cell leaves the body as the exercise ("TODO:       *)
(* implement me!") and loads it from solutions/momentum_optimizer.py; the  *)
(* body here is the specified two-stage update                             *)
(*     v <- momentum * v + grad(x);   x <- x - lr * v                      *)
MomentumVelocity_NoAccumulation(mu, v, param) == param.grad

MomentumVelocity(mu, v, param) == VAdd(VScale(mu, v), param.grad)

MomentumUpdate(rate, v, param) ==
    [param EXCEPT !.data = VSub(param.data, VScale(rate, v))]

MomentumGradientDescent_step(opt) ==
    LET stop == FirstNoGrad(opt.params)
        done(k) == stop = 0 \/ k < stop
        vnew == [k \in 1..Len(opt.params) |->
                    IF done(k)
                    THEN MomentumVelocity(opt.momentum, opt.velocities[k], opt.params[k])
                    ELSE opt.velocities[k]]
    IN  [opt EXCEPT !.velocities = vnew,
                    !.params = [k \in 1..Len(opt.params) |->
                                   IF done(k)
                                   THEN MomentumUpdate(opt.lr, vnew[k], opt.params[k])
                                   ELSE opt.params[k]]]

(* optimizer.step(): Python dispatches on the class of the object *)
step(opt) ==
    IF opt.cls = "MomentumGradientDescent"
    THEN MomentumGradientDescent_step(opt)
    ELSE GradientDescent_step(opt)

step_raises(opt) == FirstNoGrad(opt.params) # 0

---------------------------------------------------------------------------
(* minimize(f, optimizer, max_iter) *)

(* float(torch.sum(iterate.grad ** 2)) < 1e-6, for s = n/d >= 0:          *)
(* n/d < 1/ThresholdDen  <=>  n * ThresholdDen < d                         *)
(*                       <=>  n <= (d - 1) \div ThresholdDen               *)
BelowThreshold_OrEqual(s) == s.n <= s.d \div ThresholdDen

BelowThreshold(s) == s.n <= (s.d - 1) \div ThresholdDen

(* iterate.data.clone()[None, :] : a fresh copy, as one row *)
CloneRow(param) == param.data

(* torch.cat(iterate_record, dim=0): the rows stacked; RuntimeError on an  *)
(* empty list.                                                             *)
Cat(rows) ==
    IF rows = <<>>
    THEN [kind |-> "RuntimeError", rows |-> <<>>]
    ELSE [kind |-> "returned", rows |-> rows]

---------------------------------------------------------------------------
(* The inputs the model draws *)

Inits == { <<Q(8, 10), Q(8, 10)>>, <<Z(0), Z(0)>>, <<Q(1, 1000), Z(0)>> }

Grad0s == { None, <<Z(1), Z(-1)>> }

Objectives == { Objective(Z(1), <<Z(0), Z(0)>>), Objective(Z(10), <<Z(0), Z(0)>>) }

LearningRates == { Q(1, 10), Q(1, 2) }

Momentums == { Z(0), Q(9, 10) }

inputs == <<init, grad0, objective, max_iter, lr, momentum, tensors>>

results == <<iterate_rec_gd, iterate_rec_mom, final_gd>>

NoSection ==
    /\ cell = "none"
    /\ A = Unbound
    /\ y = Unbound
    /\ x = Unbound
    /\ out = Unbound

NoMinimize ==
    /\ i = 0
    /\ iterate_record = <<>>
    /\ iterate_rec_gd = Unbound
    /\ iterate_rec_mom = Unbound
    /\ final_gd = None
    /\ test_log = <<>>
    /\ step_log = <<>>

(* The driver cell: lr, init, then minimize with each of the two optimizers *)
InitDriver ==
    /\ init \in Inits
    /\ grad0 \in Grad0s
    /\ objective \in Objectives
    /\ max_iter \in 0..MaxIter
    /\ lr \in LearningRates
    /\ momentum \in Momentums
    /\ tensors = <<>>
    /\ optimizer = NoOptimizer
    /\ pc = "cell_gd"
    /\ calls = 0
    /\ NoMinimize
    /\ NoSection

iterate == optimizer.params[1]

(* minimize's entry: [iterate] = optimizer.params; iterate_record = [] *)
EnterMinimize(opt) ==
    /\ optimizer' = opt
    /\ iterate_record' = <<>>
    /\ i' = 0
    /\ test_log' = <<>>
    /\ step_log' = <<>>
    /\ pc' = "for"

(* optimizer = GradientDescent([init.clone().requires_grad_()], lr=lr)     *)
(* iterate_rec_gd = minimize(f, optimizer)                                 *)
RunGradientDescent ==
    /\ pc = "cell_gd"
    /\ EnterMinimize(GradientDescent(<<Parameter(init, grad0)>>, lr))
    /\ UNCHANGED <<inputs, results, calls, nbVars>>

(* optimizer = MomentumGradientDescent([init.clone().requires_grad_()],    *)
(*                                     lr=lr, momentum=...)                *)
(* iterate_rec_mom = minimize(f, optimizer)                                *)
RunMomentumGradientDescent ==
    /\ pc = "cell_mom"
    /\ EnterMinimize(MomentumGradientDescent(<<Parameter(init, grad0)>>, lr, momentum))
    /\ UNCHANGED <<inputs, results, calls, nbVars>>

(* for i in range(max_iter): *)
ForRange ==
    /\ pc = "for"
    /\ pc' = IF i < max_iter THEN "zero_grad" ELSE "exhausted"
    /\ UNCHANGED <<inputs, results, optimizer, i, iterate_record, test_log,
                   step_log, calls, nbVars>>

(* optimizer.zero_grad() *)
LoopZeroGrad ==
    /\ pc = "zero_grad"
    /\ optimizer' = zero_grad(optimizer)
    /\ pc' = "backward"
    /\ UNCHANGED <<inputs, results, i, iterate_record, test_log, step_log,
                   calls, nbVars>>

(* value = f(iterate); value.backward() *)
LoopBackward ==
    /\ pc = "backward"
    /\ optimizer' = [optimizer EXCEPT !.params[1] = Backward(objective, iterate)]
    /\ pc' = "test"
    /\ UNCHANGED <<inputs, results, i, iterate_record, test_log, step_log,
                   calls, nbVars>>

(* if float(torch.sum(iterate.grad ** 2)) < 1e-6: break *)
LoopTest ==
    /\ pc = "test"
    /\ test_log' = Append(test_log, SumSq(iterate.grad))
    /\ pc' = IF BelowThreshold(SumSq(iterate.grad)) THEN "break" ELSE "append"
    /\ UNCHANGED <<inputs, results, optimizer, i, iterate_record, step_log,
                   calls, nbVars>>

(* iterate_record.append(iterate.data.clone()[None, :]) *)
LoopAppend ==
    /\ pc = "append"
    /\ iterate_record' = Append(iterate_record, CloneRow(iterate))
    /\ pc' = "step"
    /\ UNCHANGED <<inputs, results, optimizer, i, test_log, step_log,
                   calls, nbVars>>

(* optimizer.step(), then the next i *)
LoopStep ==
    /\ pc = "step"
    /\ step_log' = Append(step_log, iterate.data)
    /\ optimizer' = step(optimizer)
    /\ i' = i + 1
    /\ pc' = "for"
    /\ UNCHANGED <<inputs, results, iterate_record, test_log, calls, nbVars>>

(* return torch.cat(iterate_record, dim=0), and the cell's assignment; a   *)
(* RuntimeError ends the cell.  final_gd remembers the parameter the first *)
(* optimizer ends with, which the cell rebinds `optimizer` away from.      *)
Return ==
    /\ pc \in {"break", "exhausted"}
    /\ LET res == Cat(iterate_record)
       IN  IF optimizer.cls = "GradientDescent"
           THEN /\ iterate_rec_gd' = res
                /\ final_gd' = iterate.data
                /\ iterate_rec_mom' = iterate_rec_mom
                /\ pc' = IF res.kind = "returned" THEN "cell_mom" ELSE "raised"
           ELSE /\ iterate_rec_mom' = res
                /\ UNCHANGED <<iterate_rec_gd, final_gd>>
                /\ pc' = IF res.kind = "returned" THEN "done" ELSE "raised"
    /\ UNCHANGED <<inputs, optimizer, i, iterate_record, test_log, step_log,
                   calls, nbVars>>

---------------------------------------------------------------------------
(* The optimizer's methods called on their own, on optimizers over one or  *)
(* more parameters                                                         *)

ParamDatas == { <<Q(8, 10), Q(8, 10)>>, <<Z(0), Z(1)>> }

Params == { Parameter(d, g) : d \in ParamDatas, g \in Grad0s }

ParamLists == UNION { [1..n -> Params] : n \in 1..MaxN }

InitCalls ==
    /\ init = None
    /\ grad0 = None
    /\ objective = Objective(Z(0), <<>>)
    /\ max_iter = 0
    /\ lr \in LearningRates
    /\ momentum \in Momentums
    /\ tensors = <<>>
    /\ \E ps \in ParamLists :
          optimizer \in { GradientDescent(ps, lr),
                          MomentumGradientDescent(ps, lr, momentum) }
    /\ pc = "idle"
    /\ calls = 0
    /\ NoMinimize
    /\ NoSection

Callable == pc \in {"idle", "stepped", "zeroed"} /\ calls < MaxCalls

(* optimizer.step() *)
CallStep ==
    /\ Callable
    /\ optimizer' = step(optimizer)
    /\ pc' = IF step_raises(optimizer) THEN "TypeError" ELSE "stepped"
    /\ calls' = calls + 1
    /\ UNCHANGED <<inputs, results, i, iterate_record, test_log, step_log, nbVars>>

(* optimizer.zero_grad() *)
CallZeroGrad ==
    /\ Callable
    /\ optimizer' = zero_grad(optimizer)
    /\ pc' = "zeroed"
    /\ calls' = calls + 1
    /\ UNCHANGED <<inputs, results, i, iterate_record, test_log, step_log, nbVars>>

---------------------------------------------------------------------------
(* MomentumGradientDescent(tensors, lr=lr, momentum=momentum) as a step of *)
(* its own: the caller holds the list of tensors before and after the call *)

(* Tensors of one or two elements, with or without a .grad *)
ShapedParams ==
    Params \cup { Parameter(<<Q(1, 2)>>, None), Parameter(<<Z(3)>>, <<Z(1)>>) }

TensorLists == UNION { [1..n -> ShapedParams] : n \in 1..MaxN }

InitConstruct ==
    /\ init = None
    /\ grad0 = None
    /\ objective = Objective(Z(0), <<>>)
    /\ max_iter = 0
    /\ lr \in LearningRates
    /\ momentum \in Momentums
    /\ tensors \in TensorLists
    /\ optimizer = NoOptimizer
    /\ pc = "construct"
    /\ calls = 0
    /\ NoMinimize
    /\ NoSection

(* optimizer = MomentumGradientDescent(tensors, lr=lr, momentum=momentum)  *)
ConstructMomentum ==
    /\ pc = "construct"
    /\ optimizer' = MomentumGradientDescent(tensors, lr, momentum)
    /\ pc' = "constructed"
    /\ UNCHANGED <<inputs, results, i, iterate_record, test_log, step_log, calls,
                   nbVars>>

---------------------------------------------------------------------------
(* Section "A first example": typed tensors *)

Tensor(dtype, data) == [kind |-> "tensor", dtype |-> dtype, data |-> data]

NoOptimizing ==
    /\ init = None
    /\ grad0 = None
    /\ objective = Objective(Z(0), <<>>)
    /\ max_iter = 0
    /\ lr = Z(0)
    /\ momentum = Z(0)
    /\ tensors = <<>>
    /\ optimizer = NoOptimizer
    /\ pc = "none"
    /\ calls = 0
    /\ NoMinimize

(* the values torch.rand may draw, on a coarse grid of [0, 1) *)
RandValues == { Z(0), Q(1, 4), Q(1, 2) }

(* n = ...; x = torch.rand(n, dtype=torch.float32) *)
InitTypes ==
    /\ NoOptimizing
    /\ cell = "x_rand"
    /\ \E n \in 1..MaxN : x \in { Tensor("float32", d) : d \in [1..n -> RandValues] }
    /\ A = Unbound
    /\ y = Unbound
    /\ out = Unbound

(* np.ones((n, n)): numpy's default element type is float64, and           *)
(* torch.from_numpy keeps the element type of the array.                   *)
FromNumpyOnes_Float32(n) == Tensor("float32", [r \in 1..n |-> [c \in 1..n |-> Z(1)]])

FromNumpyOnes(n) == Tensor("float64", [r \in 1..n |-> [c \in 1..n |-> Z(1)]])

(* A.float(): a float32 copy *)
Float(t) == [t EXCEPT !.dtype = "float32"]

(* torch.matmul(M, v) of a matrix and a vector: RuntimeError when the      *)
(* element types differ, else the products of the rows with v.             *)
Matmul(M, v) ==
    IF M.dtype # v.dtype
    THEN [kind |-> "RuntimeError", dtype |-> "none", data |-> <<>>]
    ELSE Tensor(M.dtype,
                [r \in 1..Len(M.data) |->
                    RSum([c \in 1..Len(v.data) |-> RMul(M.data[r][c], v.data[c])])])

(* A = torch.from_numpy(np.ones((n, n))) *)
CellFromNumpy ==
    /\ cell = "x_rand"
    /\ A' = FromNumpyOnes(Len(x.data))
    /\ cell' = "A_from_numpy"
    /\ UNCHANGED <<optVars, x, y, out>>

(* try: torch.matmul(A, x)  except RuntimeError as e: print(e) *)
CellTryMatmul ==
    /\ cell = "A_from_numpy"
    /\ LET r == Matmul(A, x)
       IN  out' = IF r.kind = "RuntimeError"
                  THEN [kind |-> "printed", dtype |-> "none", data |-> <<>>]
                  ELSE Unbound
    /\ cell' = "tried"
    /\ UNCHANGED <<optVars, A, x, y>>

(* torch.matmul(A.float(), x) *)
CellMatmulFloat ==
    /\ cell = "tried"
    /\ out' = Matmul(Float(A), x)
    /\ cell' = IF Matmul(Float(A), x).kind = "RuntimeError" THEN "raised" ELSE "matmul_float"
    /\ UNCHANGED <<optVars, A, x, y>>

---------------------------------------------------------------------------
(* Section "A first example": the Euclidean norm and its gradient *)

(* The float values that are no numbers: x / 0 and 0 / 0, 0 * inf *)
Inf == [n |-> 1, d |-> 0]
NaN == [n |-> 0, d |-> 0]

FMul(a, b) ==
    IF a = NaN \/ b = NaN THEN NaN
    ELSE IF a = Inf \/ b = Inf
         THEN (IF a.n = 0 \/ b.n = 0 THEN NaN ELSE Inf)
         ELSE RMul(a, b)

FDiv(a, b) ==
    IF a = NaN \/ b = NaN THEN NaN
    ELSE IF b.n = 0 THEN (IF a.n = 0 THEN NaN ELSE Inf)
    ELSE RDiv(a, b)

IsSquare(m) == \E r \in 0..m : r * r = m

ISqrt(m) == CHOOSE r \in 0..m : r * r = m

HasSqrt(q) == q.n >= 0 /\ IsSquare(q.n) /\ IsSquare(q.d)

(* torch.sqrt, on the numbers whose root is a rational *)
Sqrt(q) == Q(ISqrt(q.n), ISqrt(q.d))

(* def f(x): return torch.sqrt(torch.sum(x ** 2, axis=0)) -- the           *)
(* operations f applies, innermost first, as autograd records them.        *)
NormF_NoSqrt == <<"pow2", "sum">>

NormF == <<"pow2", "sum", "sqrt">>

Apply(op, v) ==
    CASE op = "pow2" -> [k \in 1..Len(v) |-> RMul(v[k], v[k])]
      [] op = "sum"  -> RSum(v)
      [] op = "sqrt" -> Sqrt(v)

(* The forward pass: the value of the recorded operations at v *)
RECURSIVE Forward(_, _)
Forward(ops, v) ==
    IF ops = <<>> THEN v ELSE Forward(Tail(ops), Apply(Head(ops), v))

(* One operation of the backward pass: the gradient with respect to the    *)
(* operation's input v, from the gradient g with respect to its output.    *)
VJP(op, v, g) ==
    CASE op = "pow2" -> [k \in 1..Len(v) |-> FMul(g[k], FMul(Z(2), v[k]))]
      [] op = "sum"  -> [k \in 1..Len(v) |-> g]
      [] op = "sqrt" -> FDiv(g, FMul(Z(2), Sqrt(v)))

(* The backward pass (reverse mode): the gradient of the recorded          *)
(* operations with respect to v, the gradient of the result being g.       *)
RECURSIVE BackProp(_, _, _)
BackProp(ops, v, g) ==
    IF ops = <<>>
    THEN g
    ELSE VJP(Head(ops), v, BackProp(Tail(ops), Apply(Head(ops), v), g))

NormValues == { Z(0), Q(3, 10), Q(2, 5), Q(3, 5), Q(4, 5) }

(* x = torch.rand(n, dtype=torch.float32), among the vectors whose norm is *)
(* a number of the model                                                   *)
InitNorm ==
    /\ NoOptimizing
    /\ cell = "norm_x"
    /\ \E n \in 1..MaxN :
          x \in { [kind |-> "tensor", dtype |-> "float32", data |-> d,
                   requires_grad |-> FALSE, grad |-> None] :
                  d \in { v \in [1..n -> NormValues] : HasSqrt(SumSq(v)) } }
    /\ A = Unbound
    /\ y = Unbound
    /\ out = [norm |-> None, expected_grad |-> None]

(* x.requires_grad_() *)
CellRequiresGrad ==
    /\ cell = "norm_x"
    /\ x' = [x EXCEPT !.requires_grad = TRUE]
    /\ cell' = "requires_grad"
    /\ UNCHANGED <<optVars, A, y, out>>

(* norm = f(x) *)
CellNorm ==
    /\ cell = "requires_grad"
    /\ out' = [out EXCEPT !.norm = Forward(NormF, x.data)]
    /\ cell' = "norm"
    /\ UNCHANGED <<optVars, A, x, y>>

(* norm.backward(): assigns (adds to) the .grad of the tensors marked      *)
(* requires_grad that norm was computed from                               *)
CellNormBackward ==
    /\ cell = "norm"
    /\ x.requires_grad
    /\ x' = [x EXCEPT !.grad =
                IF x.grad = None
                THEN BackProp(NormF, x.data, Z(1))
                ELSE VAdd(x.grad, BackProp(NormF, x.data, Z(1)))]
    /\ cell' = "backward"
    /\ UNCHANGED <<optVars, A, y, out>>

(* expected_grad = x / f(x) *)
CellExpectedGrad ==
    /\ cell = "backward"
    /\ out' = [out EXCEPT !.expected_grad =
                  [k \in 1..Len(x.data) |-> FDiv(x.data[k], Forward(NormF, x.data))]]
    /\ cell' = "expected"
    /\ UNCHANGED <<optVars, A, x, y>>

---------------------------------------------------------------------------
(* Section "Comparing gradient descent methods": the objective f *)

(* A value w1 * exp(e1) + w2 * exp(e2) + ... is kept as the set of its     *)
(* terms [w, e], one per exponent e, none with w = 0.  The exponentials of *)
(* distinct rationals are linearly independent over the rationals          *)
(* (Lindemann-Weierstrass), so two such values are equal numbers exactly   *)
(* when they are equal sets.                                               *)
Exp(e) == { [w |-> Z(1), e |-> e] }

Weight(c, e) == IF \E t \in c : t.e = e THEN (CHOOSE t \in c : t.e = e).w ELSE Z(0)

Plus(c1, c2) ==
    { t \in { [w |-> RAdd(Weight(c1, e), Weight(c2, e)), e |-> e] :
                e \in { u.e : u \in c1 \cup c2 } } : t.w.n # 0 }

Times(w, c) == { t \in { [w |-> RMul(w, u.w), e |-> u.e] : u \in c } : t.w.n # 0 }

(* p1, m1, w1, p2, m2, w2 *)
p1 == << <<Z(1), Z(0)>>, <<Z(0), Z(4)>> >>
m1 == <<Z(0), Z(1)>>
w1 == 1
p2 == << <<Z(1), Z(-2)>>, <<Z(-2), Z(10)>> >>
m2 == <<Z(0), Z(-2)>>
w2 == -1

(* class Gaussian: precision and mean *)
Gaussian(precision, mean) == [precision |-> precision, mean |-> mean]

(* xc @ self.precision: a row vector times the matrix *)
RowMatmul(v, P) ==
    [c \in 1..Len(P[1]) |-> RSum([r \in 1..Len(v) |-> RMul(v[r], P[r][c])])]

(* -.5 * (torch.sum((xc @ self.precision) * xc, dim=1)), for one row *)
GaussianExponent_NoHalf(g, xc) ==
    RNeg(RSum([k \in 1..Len(xc) |-> RMul(RowMatmul(xc, g.precision)[k], xc[k])]))

GaussianExponent(g, xc) ==
    RMul(Q(-1, 2),
         RSum([k \in 1..Len(xc) |-> RMul(RowMatmul(xc, g.precision)[k], xc[k])]))

(* Gaussian.forward(x), x a 2D-vector: xc is reshaped to a mini-batch of   *)
(* one vector, and the result has one element.                             *)
Gaussian_forward(g, xv) ==
    LET xc == VSub(xv, g.mean)
    IN  << Exp(GaussianExponent(g, xc)) >>

(* class GaussianCombination: its Gaussians and its weights *)
GaussianCombination(precisions, means, weights) ==
    [gaussians |-> [k \in 1..Len(precisions) |-> Gaussian(precisions[k], means[k])],
     weights |-> weights]

(* sum(w * g(x) for g, w in zip(self.gaussians, self.weights)): Python's   *)
(* sum starts from 0 and adds the terms in order.                          *)
RECURSIVE SumFrom(_, _, _, _)
SumFrom(acc, fc, xv, k) ==
    IF k > Len(fc.gaussians)
    THEN acc
    ELSE SumFrom(<< Plus(acc[1], Times(Z(fc.weights[k]),
                                       Gaussian_forward(fc.gaussians[k], xv)[1])) >>,
                 fc, xv, k + 1)

GaussianCombination_forward(fc, xv) == SumFrom(<< {} >>, fc, xv, 1)

(* f = GaussianCombination([p1, p2], [m1, m2], [w1, w2]) *)
f == GaussianCombination(<<p1, p2>>, <<m1, m2>>, <<w1, w2>>)

(* the points of the plane f is evaluated at *)
Points == { <<Z(a), Z(b)>> : a \in -MaxCoord..MaxCoord, b \in -MaxCoord..MaxCoord }

InitGauss ==
    /\ NoOptimizing
    /\ cell = "f_defined"
    /\ x \in Points
    /\ A = Unbound
    /\ y = Unbound
    /\ out = << {} >>

(* f(x) *)
CellEvalF ==
    /\ cell = "f_defined"
    /\ out' = GaussianCombination_forward(f, x)
    /\ cell' = "f_evaluated"
    /\ UNCHANGED <<optVars, A, x, y>>

---------------------------------------------------------------------------
(* Section "Autograd": the function g of two vectors and the cell that     *)
(* follows its gradient by hand                                            *)

MaxRuns == 3

(* def g(x, y): return torch.sum(x) + torch.sum(y) *)
g(xv, yv) == RAdd(Forward(<<"sum">>, xv), Forward(<<"sum">>, yv))

(* The backward pass of g: the addition hands the gradient of the result   *)
(* to both of its operands, and each sum is traversed backwards.           *)
g_backward(xv, yv) ==
    [x |-> BackProp(<<"sum">>, xv, Z(1)), y |-> BackProp(<<"sum">>, yv, Z(1))]

(* A leaf tensor built with requires_grad=True *)
Leaf(data) ==
    [kind |-> "tensor", dtype |-> "float32", data |-> data,
     requires_grad |-> TRUE, grad |-> None]

(* cosine.backward(), for one leaf: the gradient is added to .grad, or set *)
(* when the leaf has none yet                                              *)
Accumulate(t, gr) ==
    [t EXCEPT !.grad = IF t.grad = None THEN gr ELSE VAdd(t.grad, gr)]

(* t.add_(0.5 * t.grad), under torch.no_grad() *)
AddHalfGrad(t) == [t EXCEPT !.data = VAdd(t.data, VScale(Q(1, 2), t.grad))]

GradZero_Forgotten(t) == t

(* t.grad.zero_() *)
GradZero(t) == [t EXCEPT !.grad = VZero(t.grad)]

(* x = torch.tensor([0, 1, 2], dtype=torch.float32, requires_grad=True)    *)
(* y = torch.tensor([3, 0.9, 2.2], dtype=torch.float32, requires_grad=True) *)
InitCosine ==
    /\ NoOptimizing
    /\ cell = "xy_init"
    /\ x = Leaf(<<Z(0), Z(1), Z(2)>>)
    /\ y = Leaf(<<Z(3), Q(9, 10), Q(22, 10)>>)
    /\ A = Unbound
    /\ out = [cosine |-> None, runs |-> 0]

(* One execution of the cell "cosine = g(x, y); cosine.backward(); ...":   *)
(* the forward value, the backward pass into x.grad and y.grad, the two    *)
(* in-place updates, and the two zero_() calls.                            *)
CellManualUpdate ==
    /\ cell \in {"xy_init", "updated"}
    /\ out.runs < MaxRuns
    /\ LET gr == g_backward(x.data, y.data)
           xb == Accumulate(x, gr.x)
           yb == Accumulate(y, gr.y)
       IN  /\ x' = GradZero(AddHalfGrad(xb))
           /\ y' = GradZero(AddHalfGrad(yb))
    /\ out' = [cosine |-> g(x.data, y.data), runs |-> out.runs + 1]
    /\ cell' = "updated"
    /\ UNCHANGED <<optVars, A>>

Init ==
    \/ InitDriver
    \/ InitCalls
    \/ InitConstruct
    \/ InitTypes
    \/ InitNorm
    \/ InitGauss
    \/ InitCosine

Next ==
    \/ RunGradientDescent
    \/ RunMomentumGradientDescent
    \/ ForRange
    \/ LoopZeroGrad
    \/ LoopBackward
    \/ LoopTest
    \/ LoopAppend
    \/ LoopStep
    \/ Return
    \/ CallStep
    \/ CallZeroGrad
    \/ ConstructMomentum
    \/ CellFromNumpy
    \/ CellTryMatmul
    \/ CellMatmulFloat
    \/ CellRequiresGrad
    \/ CellNorm
    \/ CellNormBackward
    \/ CellExpectedGrad
    \/ CellEvalF
    \/ CellManualUpdate

Spec == Init /\ [][Next]_vars

---------------------------------------------------------------------------
(* Claims about minimize *)

InLoop == pc \in {"for", "zero_grad", "backward", "test", "append", "step"}

LoopLeft == pc \in {"break", "exhausted"}

(* s < 1e-6 for a rational s >= 0, by cross-multiplication (the guard keeps *)
(* the product within the integers TLC computes with).                     *)
Under1em6(s) == s.n < 2000 /\ s.n * 1000000 < s.d

(* C1: minimize always terminates: its only loop is a for over             *)
(* range(max_iter), so it runs at most max_iter iterations; it leaves the  *)
(* loop early exactly at the first iteration whose freshly computed        *)
(* sum(iterate.grad ** 2) is below 1e-6, and otherwise runs exactly        *)
(* max_iter iterations.  test_log holds one entry per iteration run.       *)
C1_MinimizeBounded ==
    /\ InLoop \/ LoopLeft =>
          /\ i <= max_iter
          /\ Len(test_log) <= max_iter
          /\ \A k \in 1..Len(test_log) :
                Under1em6(test_log[k]) => k = Len(test_log) /\ pc = "break"
    /\ pc = "break" =>
          /\ i < max_iter
          /\ Len(test_log) = i + 1
          /\ test_log[i + 1] = SumSq(iterate.grad)
          /\ Under1em6(test_log[i + 1])
    /\ pc \in {"append", "step"} =>
          /\ i < max_iter
          /\ Len(test_log) = i + 1
          /\ test_log[i + 1] = SumSq(iterate.grad)
    /\ pc = "exhausted" =>
          /\ i = max_iter
          /\ Len(test_log) = max_iter

C1_Witness ==
    /\ pc = "break"
    /\ i >= 1
    /\ max_iter > i + 1
    /\ ~Under1em6(test_log[1])

(* C9: at the convergence test, and from there to step(), iterate.grad is  *)
(* exactly the gradient of f at the current iterate: nothing of an earlier *)
(* iteration or of a gradient present before minimize is accumulated.      *)
C9_FreshGradient ==
    pc \in {"test", "append", "step", "break"} =>
        iterate.grad = Gradient(objective, iterate.data)

C9_Witness ==
    /\ pc = "step"
    /\ i >= 1
    /\ grad0 # None
    /\ optimizer.cls = "GradientDescent"
    /\ iterate.grad # VZero(iterate.grad)

(* C10: the returned tensor is the trajectory: its rows are copies of the  *)
(* parameter values seen just before each step() call, in order; there are *)
(* as many rows as step() calls and at most max_iter.                      *)
MinimizeReturned == pc \in {"cell_mom", "done", "raised"}

LastResult ==
    IF optimizer.cls = "GradientDescent" THEN iterate_rec_gd ELSE iterate_rec_mom

C10_TrajectoryReturned ==
    MinimizeReturned =>
        /\ LastResult.kind = "returned"
        /\ LastResult.rows = step_log
        /\ Len(LastResult.rows) <= max_iter

(* What does hold of C10: whenever minimize returns a tensor, its rows are *)
(* the values before each step(), and recorded rows never change.          *)
TrajectoryWhenReturned ==
    /\ MinimizeReturned /\ LastResult.kind = "returned" =>
          /\ LastResult.rows = step_log
          /\ Len(LastResult.rows) <= max_iter
          /\ LastResult.rows[1] = init
    /\ MinimizeReturned /\ LastResult.kind # "returned" => step_log = <<>>
    /\ InLoop \/ LoopLeft =>
          /\ Len(step_log) = i
          /\ Len(iterate_record) = IF pc = "step" THEN i + 1 ELSE i
          /\ \A k \in 1..Len(step_log) : iterate_record[k] = step_log[k]

---------------------------------------------------------------------------
(* Claims about the optimizers *)

StepCalled ==
    \/ pc \in {"idle", "stepped", "zeroed"} /\ pc' = "stepped"
    \/ pc = "step" /\ pc' = "for"

ZeroGradCalled ==
    \/ pc \in {"idle", "stepped", "zeroed"} /\ pc' = "zeroed"
    \/ pc = "zero_grad" /\ pc' = "backward"

SameShape ==
    /\ Len(optimizer'.params) = Len(optimizer.params)
    /\ optimizer'.lr = optimizer.lr
    /\ optimizer'.cls = optimizer.cls

(* C2: GradientDescent.step() replaces every parameter x by x - lr * x.grad *)
(* and changes neither a .grad nor lr.                                     *)
C2_GradientDescentStep ==
    [][StepCalled /\ optimizer.cls = "GradientDescent" =>
          /\ SameShape
          /\ \A k \in 1..Len(optimizer.params) :
                /\ optimizer'.params[k].data =
                      VSub(optimizer.params[k].data,
                           VScale(optimizer.lr, optimizer.params[k].grad))
                /\ optimizer'.params[k].grad = optimizer.params[k].grad]_vars

C2_Witness ==
    /\ pc = "stepped"
    /\ optimizer.cls = "GradientDescent"
    /\ Len(optimizer.params) = 2
    /\ calls = 2
    /\ optimizer.params[1].data # optimizer.params[2].data

C5_ZeroGrad ==
    [][ZeroGradCalled =>
          /\ SameShape
          /\ \A k \in 1..Len(optimizer.params) :
                /\ optimizer'.params[k].data = optimizer.params[k].data
                /\ optimizer.params[k].grad = None =>
                      optimizer'.params[k].grad = None
                /\ optimizer.params[k].grad # None =>
                      /\ Len(optimizer'.params[k].grad) = Len(optimizer.params[k].grad)
                      /\ \A j \in 1..Len(optimizer.params[k].grad) :
                            optimizer'.params[k].grad[j] = Z(0)]_vars

(* the first call, on a parameter without .grad and one with a non-zero one *)
C5_Witness ==
    /\ pc = "zeroed"
    /\ calls = 1
    /\ Len(optimizer.params) = 2
    /\ optimizer.params[1].grad = None
    /\ optimizer.params[2].grad = <<Z(0), Z(0)>>

---------------------------------------------------------------------------
(* Claims about the notebook's sections *)

(* C6: torch.matmul(A, x) with A float64 (from NumPy) and x float32 ends   *)
(* in a RuntimeError, which the cell catches and prints, leaving A and x   *)
(* as they were; with A.float() the same product succeeds.                 *)
C6_DtypeMismatch ==
    [][/\ cell' = "tried" /\ cell # "tried" =>
             /\ A.dtype = "float64" /\ x.dtype = "float32"
             /\ out'.kind = "printed"
             /\ A' = A /\ x' = x
       /\ cell = "tried" /\ cell' # "tried" =>
             /\ cell' = "matmul_float"
             /\ out'.kind = "tensor"
             /\ out'.dtype = "float32"
             /\ \A r \in 1..Len(x.data) : out'.data[r] = RSum(x.data)
             /\ A' = A /\ x' = x]_vars

C6_Witness ==
    /\ cell = "matmul_float"
    /\ Len(x.data) = 2
    /\ out.kind = "tensor"
    /\ out.data = <<Q(3, 4), Q(3, 4)>>
    /\ A.dtype = "float64"

(* within floating-point tolerance: the same number, and a number *)
Matches(a, b) == a # NaN /\ b # NaN /\ a.d # 0 /\ a = b

(* C7: for f(x) = sqrt(sum(x ** 2)) and a non-zero x marked requires_grad, *)
(* x.grad after f(x).backward() matches the analytic gradient x / f(x).    *)
C7_NormGradient ==
    cell = "expected" /\ x.data # VZero(x.data) =>
        /\ Len(x.grad) = Len(x.data)
        /\ \A k \in 1..Len(x.data) : Matches(x.grad[k], out.expected_grad[k])

C7_Witness ==
    /\ cell = "expected"
    /\ x.data = <<Q(3, 10), Q(2, 5)>>
    /\ x.grad = <<Q(3, 5), Q(4, 5)>>
    /\ out.norm = Q(1, 2)

(* (x - m)^T P (x - m) *)
QuadForm(P, m, xv) ==
    RSum([j \in 1..2 |->
            RSum([k \in 1..2 |->
                    RMul(RMul(RSub(xv[j], m[j]), P[j][k]), RSub(xv[k], m[k]))])])

---------------------------------------------------------------------------
(* Claims about the manual update cell *)

(* One execution of the cell *)
ManualUpdateRun ==
    /\ cell \in {"xy_init", "updated"}
    /\ cell' = "updated"
    /\ out'.runs = out.runs + 1

(* The unit vector e_k of n elements *)
UnitVector(n, k) == [j \in 1..n |-> IF j = k THEN Z(1) ELSE Z(0)]

(* The gradient of g at (xv, yv), by differences: g is affine, so the      *)
(* k-th partial derivative is g at the point moved by e_k minus g at the   *)
(* point.                                                                  *)
GradientOfG_x(xv, yv) ==
    [k \in 1..Len(xv) |-> RSub(g(VAdd(xv, UnitVector(Len(xv), k)), yv), g(xv, yv))]

GradientOfG_y(xv, yv) ==
    [k \in 1..Len(yv) |-> RSub(g(xv, VAdd(yv, UnitVector(Len(yv), k))), g(xv, yv))]

(* C11: executing the manual update cell again and again never accumulates *)
(* gradients: every execution leaves x.grad and y.grad all zeros, and adds *)
(* to x and to y one half of the gradient of g at the values x and y had   *)
(* when the execution started, and nothing else.                           *)
C11_NoAccumulation ==
    [][ManualUpdateRun =>
          /\ x'.grad = VZero(x.data)
          /\ y'.grad = VZero(y.data)
          /\ x'.data = VAdd(x.data, VScale(Q(1, 2), GradientOfG_x(x.data, y.data)))
          /\ y'.data = VAdd(y.data, VScale(Q(1, 2), GradientOfG_y(x.data, y.data)))
          /\ out'.cosine = g(x.data, y.data)]_vars

C11_Witness ==
    /\ cell = "updated"
    /\ out.runs = 3
    /\ x.data = <<Q(3, 2), Q(5, 2), Q(7, 2)>>
    /\ y.data = <<Q(9, 2), Q(12, 5), Q(37, 10)>>
    /\ x.grad = <<Z(0), Z(0), Z(0)>>
    /\ y.grad = <<Z(0), Z(0), Z(0)>>

---------------------------------------------------------------------------
(* Claims about the construction of MomentumGradientDescent *)

(* A step that constructs a MomentumGradientDescent: on its own, or in the *)
(* driver cell on the way into minimize                                    *)
MomentumConstructed ==
    \/ pc = "construct" /\ pc' = "constructed"
    \/ pc = "cell_mom" /\ pc' = "for"

(* The list of tensors the constructor is called with *)
ConstructorArgument ==
    IF pc = "construct" THEN tensors ELSE <<Parameter(init, grad0)>>

(* C12: a newly constructed MomentumGradientDescent holds exactly one      *)
(* velocity per parameter, of the shape of its parameter, all zeros and    *)
(* not tracked for differentiation (requires_grad False); the parameters   *)
(* it holds are the tensors it was given, unchanged, and the caller's list *)
(* is unchanged.                                                           *)
C12_FreshVelocities ==
    [][MomentumConstructed =>
          /\ optimizer'.cls = "MomentumGradientDescent"
          /\ optimizer'.params = ConstructorArgument
          /\ tensors' = tensors
          /\ Len(optimizer'.velocities) = Len(ConstructorArgument)
          /\ Len(optimizer'.velocities_requires_grad) = Len(ConstructorArgument)
          /\ \A k \in 1..Len(ConstructorArgument) :
                /\ Len(optimizer'.velocities[k]) = Len(ConstructorArgument[k].data)
                /\ \A j \in 1..Len(optimizer'.velocities[k]) :
                      optimizer'.velocities[k][j] = Z(0)
                /\ ~optimizer'.velocities_requires_grad[k]]_vars

C12_Witness ==
    /\ pc = "constructed"
    /\ optimizer.cls = "MomentumGradientDescent"
    /\ Len(tensors) = 2
    /\ tensors[1] = Parameter(<<Z(3)>>, <<Z(1)>>)
    /\ tensors[2] = Parameter(<<Q(8, 10), Q(8, 10)>>, None)
    /\ optimizer.params = tensors
    /\ optimizer.velocities = << <<Z(0)>>, <<Z(0), Z(0)>> >>
    /\ optimizer.velocities_requires_grad = <<FALSE, FALSE>>

====
